---- MODULE Spec2Model ----
(***************************************************************************)
(* CUtlArray<T, A> (src/utils/common/utlarray.h): a growable array over a  *)
(* pluggable storage policy A.  Two arrays of the same instantiation are   *)
(* modelled so that Swap can be exercised.  The storage policies live in   *)
(* utlmemory.h / utlblockmemory.h, which are not part of the sources at    *)
(* hand; their operations (Grow, EnsureCapacity, Swap, NumAllocated, Base) *)
(* are modelled from the specification, sections 4.1 - 4.5.                *)
(*                                                                         *)
(* A storage slot holds either an element value or Raw: storage without a  *)
(* live object.  Destruct leaves Raw; memmove/memcpy relocate the slots'   *)
(* contents and the slots left behind hold no object any more (Raw).       *)
(* C index i is position i + 1 of the TLA+ sequence mem.                   *)
(***************************************************************************)
EXTENDS Integers, Sequences, FiniteSets

\* ---- bounds of the model ----
MaxLen == 3                 \* largest Count() an operation may produce
MAX_SIZE == 2               \* template parameter of CUtlArrayFixed

\* ---- spec-modelled storage parameters ----
BlockSize == 2              \* page size of the block-segmented policy
DefaultValue == 0           \* value of a default-constructed T

Values == {0, 1, 2}         \* element values; 0 is T()
Raw == -1                   \* a slot without a live object
NULL == "NULL"
\* a const T* argument: the null pointer, or the array it points to
NullPtr == [null |-> TRUE, at |-> <<>>]
Ptr(s) == [null |-> FALSE, at |-> s]
Arrays == {1, 2}
Policies == {"growable", "fixed", "block"}

VARIABLES
    policy,     \* the storage policy A both arrays are instantiated with
    debug,      \* TRUE: assert() is compiled in; FALSE: NDEBUG build
    vec,        \* vec[a] = [mem, size, pe]: m_Memory, m_Size, m_pElements
    status,     \* "ok", "aborted" (a failed assert), "ub" (undefined behaviour)
    last        \* the operation performed last: arguments, result, effort

vars == <<policy, debug, vec, status, last>>

Max(x, y) == IF x >= y THEN x ELSE y

----------------------------------------------------------------------------
\* Execution context of one member function call: the array's fields plus
\* the call's bookkeeping (return value, status, counts of what it did).

Enter(v) ==
    [mem |-> v.mem, size |-> v.size, pe |-> v.pe, st |-> "ok", ret |-> NULL,
     nGrow |-> 0, nGrowVector |-> 0, nShift |-> 0,
     nConstruct |-> 0, nDestruct |-> 0, nAssign |-> 0,
     nOverConstruct |-> 0, nDeadDestruct |-> 0]

Ok(c) == c.st = "ok"

\* assert( cond ): aborts the process in a debug build, is compiled out otherwise
CAssert(c, cond) ==
    IF ~Ok(c) \/ cond THEN c
    ELSE IF debug THEN [c EXCEPT !.st = "aborted"] ELSE c

Return(c, r) == IF Ok(c) THEN [c EXCEPT !.ret = r] ELSE c

\* ---- storage policy (m_Memory) ----
\* m_Memory( growSize = 0, initSize = 0 )
InitialMemory == [k \in 1..(IF policy = "fixed" THEN MAX_SIZE ELSE 0) |-> Raw]

NumAllocated(c) == Len(c.mem)

Base(c) == IF policy = "block" \/ Len(c.mem) = 0 THEN NULL ELSE "base"

InBounds(c, i) == 0 <= i /\ i < Len(c.mem)

\* m_Memory[i] used as an lvalue: outside the storage it is undefined behaviour
StoreSlot(c, i, v) ==
    IF ~Ok(c) THEN c
    ELSE IF InBounds(c, i) THEN [c EXCEPT !.mem[i + 1] = v]
    ELSE [c EXCEPT !.st = "ub"]

\* capacity after m_Memory.Grow(num)
GrownCapacity(alloc, num) ==
    IF policy = "block"
    THEN ((alloc + num + BlockSize - 1) \div BlockSize) * BlockSize
    ELSE Max(alloc + num, Max(2 * alloc, 1))

Extend(mem, n) == mem \o [k \in 1..(n - Len(mem)) |-> Raw]

\* m_Memory.Grow(num): the fixed policy cannot grow, which is a failed assert
MemoryGrow(c, num) ==
    IF ~Ok(c) THEN c
    ELSE IF policy = "fixed" THEN [CAssert(c, FALSE) EXCEPT !.nGrow = @ + 1]
    ELSE [c EXCEPT !.mem = Extend(@, GrownCapacity(Len(@), num)),
                   !.nGrow = @ + 1]

\* m_Memory.EnsureCapacity(num)
MemoryEnsureCapacity(c, num) ==
    IF ~Ok(c) THEN c
    ELSE IF policy = "fixed" THEN CAssert(c, num <= MAX_SIZE)
    ELSE IF Len(c.mem) >= num THEN c
    ELSE IF policy = "block"
         THEN [c EXCEPT !.mem = Extend(@, GrownCapacity(Len(@), num - Len(@)))]
         ELSE [c EXCEPT !.mem = Extend(@, num)]

\* ---- element lifecycle ----
\* slot i holds a live object
IsLive(c, i) == InBounds(c, i) /\ c.mem[i + 1] # Raw

\* nOverConstruct counts constructions into a slot that holds a live object,
\* nDeadDestruct destructions of a slot that holds none
Construct(c, i) ==
    IF ~Ok(c) THEN c
    ELSE [StoreSlot(c, i, DefaultValue) EXCEPT
            !.nConstruct = @ + 1,
            !.nOverConstruct = @ + (IF IsLive(c, i) THEN 1 ELSE 0)]

CopyConstruct(c, i, src) ==
    IF ~Ok(c) THEN c
    ELSE [StoreSlot(c, i, src) EXCEPT
            !.nConstruct = @ + 1,
            !.nOverConstruct = @ + (IF IsLive(c, i) THEN 1 ELSE 0)]

Destruct(c, i) ==
    IF ~Ok(c) THEN c
    ELSE [StoreSlot(c, i, Raw) EXCEPT
            !.nDestruct = @ + 1,
            !.nDeadDestruct = @ + (IF IsLive(c, i) THEN 0 ELSE 1)]

\* Element(i) = src: T's copy assignment
Assign(c, i, src) ==
    IF ~Ok(c) THEN c
    ELSE [StoreSlot(c, i, src) EXCEPT !.nAssign = @ + 1]

\* memmove / memcpy of n slots from index src to index dst
MemMove(c, dst, src, n) ==
    IF ~Ok(c) THEN c
    ELSE IF ~(InBounds(c, dst) /\ InBounds(c, dst + n - 1)
              /\ InBounds(c, src) /\ InBounds(c, src + n - 1))
    THEN [c EXCEPT !.st = "ub"]
    ELSE [c EXCEPT !.mem =
            [k \in 1..Len(c.mem) |->
                IF dst <= k - 1 /\ k - 1 < dst + n THEN c.mem[k - dst + src]
                ELSE IF src <= k - 1 /\ k - 1 < src + n THEN Raw
                ELSE c.mem[k]]]

\* ---- CUtlArray ----
Count(c) == c.size

IsValidIndex(c, i) == (i >= 0) /\ (i < c.size)

InvalidIndex == -1

ResetDbgInfo(c) == IF Ok(c) THEN [c EXCEPT !.pe = Base(c)] ELSE c

\* mutant: m_Size grows by one whatever num is
GrowVectorByOne(c, num) ==
    LET g == IF c.size + num > NumAllocated(c)
             THEN MemoryGrow(c, c.size + num - NumAllocated(c))
             ELSE c
    IN  IF ~Ok(g) THEN g
        ELSE ResetDbgInfo([g EXCEPT !.size = @ + 1, !.nGrowVector = @ + 1])

\* mutant: grows when the new count only reaches the capacity
GrowVectorEager(c, num) ==
    LET g == IF c.size + num >= NumAllocated(c)
             THEN MemoryGrow(c, c.size + num - NumAllocated(c))
             ELSE c
    IN  IF ~Ok(g) THEN g
        ELSE ResetDbgInfo([g EXCEPT !.size = @ + num, !.nGrowVector = @ + 1])

GrowVector(c, num) ==
    LET g == IF c.size + num > NumAllocated(c)
             THEN MemoryGrow(c, c.size + num - NumAllocated(c))
             ELSE c
    IN  IF ~Ok(g) THEN g
        ELSE ResetDbgInfo([g EXCEPT !.size = @ + num, !.nGrowVector = @ + 1])

\* mutant: moves one element too few
ShiftElementsRightShort(c, elem, num) ==
    LET a == CAssert(c, IsValidIndex(c, elem) \/ c.size = 0 \/ num = 0)
        numToMove == c.size - elem - num - 1
    IN  IF ~Ok(a) THEN a
        ELSE LET m == IF numToMove > 0 /\ num > 0
                      THEN MemMove(a, elem + num, elem, numToMove)
                      ELSE a
             IN  IF Ok(m) THEN [m EXCEPT !.nShift = @ + 1] ELSE m

ShiftElementsRight(c, elem, num) ==
    LET a == CAssert(c, IsValidIndex(c, elem) \/ c.size = 0 \/ num = 0)
        numToMove == c.size - elem - num
    IN  IF ~Ok(a) THEN a
        ELSE LET m == IF numToMove > 0 /\ num > 0
                      THEN MemMove(a, elem + num, elem, numToMove)
                      ELSE a
             IN  IF Ok(m) THEN [m EXCEPT !.nShift = @ + 1] ELSE m

ShiftElementsLeft(c, elem, num) ==
    LET a == CAssert(c, IsValidIndex(c, elem) \/ c.size = 0 \/ num = 0)
        numToMove == c.size - elem - num
    IN  IF ~Ok(a) THEN a
        ELSE LET m == IF numToMove > 0 /\ num > 0
                      THEN MemMove(a, elem, elem + num, numToMove)
                      ELSE a
             IN  IF Ok(m) THEN [m EXCEPT !.nShift = @ + 1] ELSE m

----------------------------------------------------------------------------
\* Insertion.  A source is a value or a sequence of values held outside the
\* array, so the asserts against sources aliasing the array's storage hold.

\* mutant: the elements are shifted before the vector has grown
InsertBeforeShiftFirst(c, elem, src) ==
    LET a == CAssert(c, elem = Count(c) \/ IsValidIndex(c, elem))
        s == ShiftElementsRight(a, elem, 1)
        g == GrowVector(s, 1)
    IN  Return(CopyConstruct(g, elem, src), elem)

InsertBefore(c, elem, src) ==
    LET a == CAssert(c, elem = Count(c) \/ IsValidIndex(c, elem))
        g == GrowVector(a, 1)
        s == ShiftElementsRight(g, elem, 1)
    IN  Return(CopyConstruct(s, elem, src), elem)

\* InsertBefore( int elem ): the default-constructing overload
InsertBeforeDefault(c, elem) ==
    LET a == CAssert(c, elem = Count(c) \/ IsValidIndex(c, elem))
        g == GrowVector(a, 1)
        s == ShiftElementsRight(g, elem, 1)
    IN  Return(Construct(s, elem), elem)

AddToHead(c, src) == InsertBefore(c, 0, src)

AddToTail(c, src) == InsertBefore(c, c.size, src)

InsertAfter(c, elem, src) == InsertBefore(c, elem + 1, src)

RECURSIVE ConstructLoop(_, _, _, _)
ConstructLoop(c, elem, i, num) ==
    IF i >= num THEN c
    ELSE ConstructLoop(Construct(c, elem + i), elem, i + 1, num)

RECURSIVE AssignLoop(_, _, _, _, _)
AssignLoop(c, elem, i, num, pToInsert) ==
    IF i >= num THEN c
    ELSE AssignLoop(Assign(c, elem + i, pToInsert.at[i + 1]), elem, i + 1,
                    num, pToInsert)

\* mutant: num single inserts, each with its own growth and shift
RECURSIVE InsertEach(_, _, _, _, _)
InsertEach(c, elem, i, num, pToInsert) ==
    IF i >= num THEN c
    ELSE InsertEach(IF pToInsert.null THEN InsertBeforeDefault(c, elem + i)
                    ELSE InsertBefore(c, elem + i, pToInsert.at[i + 1]),
                    elem, i + 1, num, pToInsert)

InsertMultipleBeforeOneByOne(c, elem, num, pToInsert) ==
    Return(InsertEach(c, elem, 0, num, pToInsert), elem)

InsertMultipleBefore(c, elem, num, pToInsert) ==
    IF num = 0 THEN Return(c, elem)
    ELSE LET a == CAssert(c, elem = Count(c) \/ IsValidIndex(c, elem))
             g == GrowVector(a, num)
             s == ShiftElementsRight(g, elem, num)
             d == ConstructLoop(s, elem, 0, num)
             f == IF ~pToInsert.null
                  THEN AssignLoop(d, elem, 0, num, pToInsert)
                  ELSE d
         IN  Return(f, elem)

AddMultipleToHead(c, num) == InsertMultipleBefore(c, 0, num, NullPtr)

AddMultipleToTail(c, num, pToCopy) ==
    InsertMultipleBefore(c, c.size, num, pToCopy)

InsertMultipleAfter(c, elem, num) ==
    InsertMultipleBefore(c, elem + 1, num, NullPtr)

----------------------------------------------------------------------------
\* Removal

\* for (int i = hi; --i >= lo; ) Destruct(&Element(i));
RECURSIVE DestructLoop(_, _, _)
DestructLoop(c, hi, lo) ==
    IF hi - 1 < lo THEN c
    ELSE DestructLoop(Destruct(c, hi - 1), hi - 1, lo)

\* mutant: the last element is not moved into the gap
FastRemoveNoRelocate(c, elem) ==
    LET a == CAssert(c, IsValidIndex(c, elem))
        d == Destruct(a, elem)
    IN  IF Ok(d) /\ d.size > 0 THEN [d EXCEPT !.size = @ - 1] ELSE d

FastRemove(c, elem) ==
    LET a == CAssert(c, IsValidIndex(c, elem))
        d == Destruct(a, elem)
    IN  IF Ok(d) /\ d.size > 0
        THEN LET m == MemMove(d, elem, d.size - 1, 1)
             IN  IF Ok(m) THEN [m EXCEPT !.size = @ - 1] ELSE m
        ELSE d

Remove(c, elem) ==
    LET d == Destruct(c, elem)
        s == ShiftElementsLeft(d, elem, 1)
    IN  IF Ok(s) THEN [s EXCEPT !.size = @ - 1] ELSE s

RemoveMultiple(c, elem, num) ==
    LET a == CAssert(CAssert(c, elem >= 0), elem + num <= Count(c))
        d == DestructLoop(a, elem + num, elem)
        s == ShiftElementsLeft(d, elem, num)
    IN  IF Ok(s) THEN [s EXCEPT !.size = @ - num] ELSE s

RemoveAll(c) ==
    LET d == DestructLoop(c, c.size, 0)
    IN  IF Ok(d) THEN [d EXCEPT !.size = 0] ELSE d

\* the least i < Count() with Element(i) == src, else -1
Find(c, src) ==
    LET hits == {i \in 0..(c.size - 1) : c.mem[i + 1] = src}
    IN  IF hits = {} THEN InvalidIndex
        ELSE CHOOSE i \in hits : \A j \in hits : i <= j

FindAndRemove(c, src) ==
    LET elem == Find(c, src)
    IN  IF elem # InvalidIndex THEN Return(Remove(c, elem), TRUE)
        ELSE Return(c, FALSE)

----------------------------------------------------------------------------
\* Whole-array operations

\* mutant: the old elements are not removed first
SetCountKeeping(c, count) == AddMultipleToTail(c, count, NullPtr)

SetCount(c, count) == AddMultipleToTail(RemoveAll(c), count, NullPtr)

SetSize(c, size) == SetCount(c, size)

\* for (i = 0; i < size; i++) (*this)[i] = pArray[i];
CopyArray(c, pArray, size) ==
    AssignLoop(SetSize(c, size), 0, 0, size, pArray)

EnsureCapacity(c, num) == ResetDbgInfo(MemoryEnsureCapacity(c, num))

EnsureCount(c, num) ==
    IF Count(c) < num THEN AddMultipleToTail(c, num - Count(c), NullPtr)
    ELSE c

\* m_Memory.Swap( vec.m_Memory ): the two storage instances change owner
MemorySwap(pair) ==
    <<[pair[1] EXCEPT !.mem = pair[2].mem], [pair[2] EXCEPT !.mem = pair[1].mem]>>

\* mutant: m_Size is not exchanged
SwapMemoryOnly(pair) ==
    LET m == MemorySwap(pair)
    IN  <<[m[1] EXCEPT !.pe = pair[2].pe], [m[2] EXCEPT !.pe = pair[1].pe]>>

\* Swap( vec ), on the pair <<this, vec>>
Swap(pair) ==
    LET m == MemorySwap(pair)
    IN  <<[m[1] EXCEPT !.size = pair[2].size, !.pe = pair[2].pe],
          [m[2] EXCEPT !.size = pair[1].size, !.pe = pair[1].pe]>>

\* ---- memory deallocation ----
\* m_Memory.Purge(): the storage returns to its state after construction
MemoryPurge(c) == IF Ok(c) THEN [c EXCEPT !.mem = InitialMemory] ELSE c

\* capacity after m_Memory.Purge( numElements ): the tail beyond numElements
\* is released, as whole pages by the block policy, not at all by the fixed
PurgedCapacity(alloc, numElements) ==
    IF policy = "fixed" \/ numElements >= alloc THEN alloc
    ELSE IF policy = "block"
         THEN ((numElements + BlockSize - 1) \div BlockSize) * BlockSize
         ELSE numElements

MemoryPurgeTo(c, numElements) ==
    IF ~Ok(c) THEN c
    ELSE [c EXCEPT !.mem =
            SubSeq(@, 1, PurgedCapacity(Len(@), numElements))]

Purge(c) == ResetDbgInfo(MemoryPurge(RemoveAll(c)))

\* Compact() leaves m_pElements as it is
Compact(c) == MemoryPurgeTo(c, c.size)

\* ---- operator= ----
\* other[ i ]: other is this array itself (read as it is by now) or another
OtherElement(c, other, same, i) ==
    IF same THEN (IF InBounds(c, i) THEN c.mem[i + 1] ELSE Raw)
    ELSE other[i + 1]

\* for (i = 0; i < nCount; i++) (*this)[i] = other[i];
RECURSIVE AssignFromLoop(_, _, _, _, _)
AssignFromLoop(c, i, nCount, other, same) ==
    IF i >= nCount THEN c
    ELSE AssignFromLoop(Assign(c, i, OtherElement(c, other, same, i)),
                        i + 1, nCount, other, same)

\* operator=( other ); other is the element sequence of the other array
\* before the call, same tells that the other array is this one
OperatorAssign(c, other, same) ==
    LET nCount == Len(other)
    IN  AssignFromLoop(SetSize(c, nCount), 0, nCount, other, same)

----------------------------------------------------------------------------
\* Sort.  A comparator is named by its order; it returns negative, zero or
\* positive as its first argument sorts before, with or after its second.

Comparators == {"ascending", "descending"}

Compare(pfnCompare, x, y) == IF pfnCompare = "ascending" THEN x - y ELSE y - x

RECURSIVE SortedInsert(_, _, _)
SortedInsert(s, x, pfnCompare) ==
    IF s = <<>> THEN <<x>>
    ELSE IF Compare(pfnCompare, x, Head(s)) < 0 THEN <<x>> \o s
    ELSE <<Head(s)>> \o SortedInsert(Tail(s), x, pfnCompare)

\* qsort( base, n, sizeof(T), cmp ) of the C library: the n slots in the
\* order of cmp
RECURSIVE QSort(_, _)
QSort(s, pfnCompare) ==
    IF s = <<>> THEN <<>>
    ELSE SortedInsert(QSort(Tail(s), pfnCompare), Head(s), pfnCompare)

ExchangeSlots(c, i, j) ==
    [c EXCEPT !.mem[i + 1] = c.mem[j + 1], !.mem[j + 1] = c.mem[i + 1]]

\* for ( int j = 1; j <= i; ++j ) if ( cmp( j - 1, j ) < 0 ) swap( j - 1, j )
RECURSIVE BubbleInner(_, _, _, _)
BubbleInner(c, j, i, pfnCompare) ==
    IF j > i THEN c
    ELSE BubbleInner(IF Compare(pfnCompare, c.mem[j], c.mem[j + 1]) < 0
                     THEN ExchangeSlots(c, j - 1, j) ELSE c,
                     j + 1, i, pfnCompare)

\* for ( int i = m_Size - 1; i >= 0; --i )
RECURSIVE BubbleOuter(_, _, _)
BubbleOuter(c, i, pfnCompare) ==
    IF i < 0 THEN c
    ELSE BubbleOuter(BubbleInner(c, 1, i, pfnCompare), i - 1, pfnCompare)

Sort(c, pfnCompare) ==
    IF Count(c) <= 1 THEN c
    ELSE IF Base(c) # NULL
    THEN [c EXCEPT !.mem = QSort(SubSeq(c.mem, 1, c.size), pfnCompare)
                           \o SubSeq(c.mem, c.size + 1, Len(c.mem))]
    ELSE LET a == CAssert(c, FALSE)
         IN  IF Ok(a) THEN BubbleOuter(a, a.size - 1, pfnCompare) ELSE a

----------------------------------------------------------------------------
\* The state machine: a client calling the public member functions.

NewArray ==
    [mem |-> InitialMemory, size |-> 0,
     pe |-> IF policy = "fixed" THEN "base" ELSE NULL]

\* the elements read by index 0 .. Count() - 1
Contents(v) ==
    [i \in 1..v.size |-> IF i <= Len(v.mem) THEN v.mem[i] ELSE Raw]

NoOp ==
    [op |-> "new", a |-> 0, other |-> 0, elem |-> 0, num |-> 0, src |-> NullPtr,
     cmp |-> "", ret |-> NULL, pre |-> <<>>, preOther |-> <<>>, preAlloc |-> 0,
     nGrow |-> 0, nGrowVector |-> 0, nShift |-> 0,
     nConstruct |-> 0, nDestruct |-> 0, nAssign |-> 0,
     nOverConstruct |-> 0, nDeadDestruct |-> 0]

Init ==
    /\ policy \in Policies
    /\ debug \in BOOLEAN
    /\ vec = [a \in Arrays |-> NewArray]
    /\ status = "ok"
    /\ last = NoOp

Fields(c) == [mem |-> c.mem, size |-> c.size, pe |-> c.pe]

\* the call op(elem, num, src) on array a ran from Enter(vec[a]) to c
Record(a, op, elem, num, src, cmp, c) ==
    /\ vec' = [vec EXCEPT ![a] = Fields(c)]
    /\ last' = [op |-> op, a |-> a, other |-> 0, elem |-> elem, num |-> num,
                src |-> src, cmp |-> cmp, ret |-> c.ret,
                pre |-> Contents(vec[a]), preOther |-> <<>>,
                preAlloc |-> Len(vec[a].mem),
                nGrow |-> c.nGrow, nGrowVector |-> c.nGrowVector,
                nShift |-> c.nShift, nConstruct |-> c.nConstruct,
                nDestruct |-> c.nDestruct, nAssign |-> c.nAssign,
                nOverConstruct |-> c.nOverConstruct,
                nDeadDestruct |-> c.nDeadDestruct]
    /\ UNCHANGED <<policy, debug>>

DoneWith(a, op, elem, num, src, cmp, c) ==
    /\ Record(a, op, elem, num, src, cmp, c)
    /\ status' = c.st

Done(a, op, elem, num, src, c) == DoneWith(a, op, elem, num, src, "", c)

\* how many more elements array a may take
Room(a) == (IF policy = "fixed" THEN MAX_SIZE ELSE MaxLen) - vec[a].size

\* two source arrays of each length n; their elements differ from T()
SourceArrays(n) ==
    {Ptr([k \in 1..n |-> 1 + (k % 2)]), Ptr([k \in 1..n |-> 2 - (k % 2)])}

DoInsertBefore(A) ==
    \E a \in A, src \in Values : \E elem \in 0..vec[a].size :
        /\ status = "ok" /\ Room(a) >= 1
        /\ Done(a, "InsertBefore", elem, 1, Ptr(<<src>>),
                InsertBefore(Enter(vec[a]), elem, src))

DoInsertBeforeDefault(A) ==
    \E a \in A : \E elem \in 0..vec[a].size :
        /\ status = "ok" /\ Room(a) >= 1
        /\ Done(a, "InsertBeforeDefault", elem, 1, NullPtr,
                InsertBeforeDefault(Enter(vec[a]), elem))

DoInsertAfter(A) ==
    \E a \in A, src \in Values : \E elem \in 0..(vec[a].size - 1) :
        /\ status = "ok" /\ Room(a) >= 1
        /\ Done(a, "InsertAfter", elem, 1, Ptr(<<src>>),
                InsertAfter(Enter(vec[a]), elem, src))

DoAddToHead(A) ==
    \E a \in A, src \in Values :
        /\ status = "ok" /\ Room(a) >= 1
        /\ Done(a, "AddToHead", 0, 1, Ptr(<<src>>),
                AddToHead(Enter(vec[a]), src))

DoAddToTail(A) ==
    \E a \in A, src \in Values :
        /\ status = "ok" /\ Room(a) >= 1
        /\ Done(a, "AddToTail", vec[a].size, 1, Ptr(<<src>>),
                AddToTail(Enter(vec[a]), src))

DoInsertMultipleBefore(A) ==
    \E a \in A : \E elem \in 0..vec[a].size, num \in 0..Room(a) :
        \E src \in {NullPtr} \cup SourceArrays(num) :
            /\ status = "ok"
            /\ Done(a, "InsertMultipleBefore", elem, num, src,
                    InsertMultipleBefore(Enter(vec[a]), elem, num, src))

DoInsertMultipleAfter(A) ==
    \E a \in A : \E elem \in 0..(vec[a].size - 1), num \in 0..Room(a) :
        /\ status = "ok"
        /\ Done(a, "InsertMultipleAfter", elem, num, NullPtr,
                InsertMultipleAfter(Enter(vec[a]), elem, num))

DoAddMultipleToHead(A) ==
    \E a \in A : \E num \in 0..Room(a) :
        /\ status = "ok"
        /\ Done(a, "AddMultipleToHead", 0, num, NullPtr,
                AddMultipleToHead(Enter(vec[a]), num))

DoAddMultipleToTail(A) ==
    \E a \in A : \E num \in 0..Room(a) :
        \E src \in {NullPtr} \cup SourceArrays(num) :
            /\ status = "ok"
            /\ Done(a, "AddMultipleToTail", vec[a].size, num, src,
                    AddMultipleToTail(Enter(vec[a]), num, src))

DoFastRemove(A) ==
    \E a \in A : \E elem \in 0..(vec[a].size - 1) :
        /\ status = "ok"
        /\ Done(a, "FastRemove", elem, 1, NullPtr, FastRemove(Enter(vec[a]), elem))

DoRemove(A) ==
    \E a \in A : \E elem \in 0..(vec[a].size - 1) :
        /\ status = "ok"
        /\ Done(a, "Remove", elem, 1, NullPtr, Remove(Enter(vec[a]), elem))

DoRemoveMultiple(A) ==
    \E a \in A : \E elem \in 0..vec[a].size :
        \E num \in 0..(vec[a].size - elem) :
            /\ status = "ok"
            /\ Done(a, "RemoveMultiple", elem, num, NullPtr,
                    RemoveMultiple(Enter(vec[a]), elem, num))

DoFindAndRemove(A) ==
    \E a \in A, src \in Values :
        /\ status = "ok"
        /\ Done(a, "FindAndRemove", Find(Enter(vec[a]), src), 1, Ptr(<<src>>),
                FindAndRemove(Enter(vec[a]), src))

DoRemoveAll(A) ==
    \E a \in A :
        /\ status = "ok"
        /\ Done(a, "RemoveAll", 0, vec[a].size, NullPtr, RemoveAll(Enter(vec[a])))

DoSetCount(A) ==
    \E a \in A : \E count \in 0..(Room(a) + vec[a].size) :
        /\ status = "ok"
        /\ Done(a, "SetCount", 0, count, NullPtr, SetCount(Enter(vec[a]), count))

DoEnsureCount(A) ==
    \E a \in A : \E num \in 0..(Room(a) + vec[a].size) :
        /\ status = "ok"
        /\ Done(a, "EnsureCount", 0, num, NullPtr, EnsureCount(Enter(vec[a]), num))

DoCopyArray(A) ==
    \E a \in A : \E size \in 0..(Room(a) + vec[a].size) :
        \E pArray \in SourceArrays(size) :
            /\ status = "ok"
            /\ Done(a, "CopyArray", 0, size, pArray,
                    CopyArray(Enter(vec[a]), pArray, size))

DoEnsureCapacity(A) ==
    \E a \in A : \E num \in 0..(Room(a) + vec[a].size) :
        /\ status = "ok"
        /\ Done(a, "EnsureCapacity", 0, num, NullPtr,
                EnsureCapacity(Enter(vec[a]), num))

DoSort(A) ==
    \E a \in A, pfnCompare \in Comparators :
        /\ status = "ok"
        /\ DoneWith(a, "Sort", 0, 0, NullPtr, pfnCompare,
                    Sort(Enter(vec[a]), pfnCompare))

DoSwap(A) ==
    \E a \in A : \E b \in Arrays \ {a} :
        LET r == Swap(<<Enter(vec[a]), Enter(vec[b])>>)
        IN  /\ status = "ok"
            /\ vec' = [vec EXCEPT ![a] = Fields(r[1]), ![b] = Fields(r[2])]
            /\ last' = [NoOp EXCEPT !.op = "Swap", !.a = a, !.other = b,
                    !.pre = Contents(vec[a]), !.preOther = Contents(vec[b]),
                    !.preAlloc = Len(vec[a].mem),
                    !.nConstruct = r[1].nConstruct + r[2].nConstruct,
                    !.nDestruct = r[1].nDestruct + r[2].nDestruct,
                    !.nAssign = r[1].nAssign + r[2].nAssign]
            /\ UNCHANGED <<policy, debug, status>>

DoPurge(A) ==
    \E a \in A :
        /\ status = "ok"
        /\ Done(a, "Purge", 0, vec[a].size, NullPtr, Purge(Enter(vec[a])))

DoCompact(A) ==
    \E a \in A :
        /\ status = "ok"
        /\ Done(a, "Compact", 0, 0, NullPtr, Compact(Enter(vec[a])))

\* a = b, for every pair of arrays of A, a = a included
DoAssign(A) ==
    \E a \in A, b \in A :
        LET c == OperatorAssign(Enter(vec[a]), Contents(vec[b]), a = b)
        IN  /\ status = "ok"
            /\ vec' = [vec EXCEPT ![a] = Fields(c)]
            /\ last' = [NoOp EXCEPT !.op = "operator=", !.a = a, !.other = b,
                    !.num = vec[b].size,
                    !.pre = Contents(vec[a]), !.preOther = Contents(vec[b]),
                    !.preAlloc = Len(vec[a].mem),
                    !.nGrow = c.nGrow, !.nGrowVector = c.nGrowVector,
                    !.nShift = c.nShift, !.nConstruct = c.nConstruct,
                    !.nDestruct = c.nDestruct, !.nAssign = c.nAssign,
                    !.nOverConstruct = c.nOverConstruct,
                    !.nDeadDestruct = c.nDeadDestruct]
            /\ status' = c.st
            /\ UNCHANGED <<policy, debug>>

This == {1}

\* one array under every public operation
Next ==
    \/ DoInsertBefore(This)
    \/ DoInsertBeforeDefault(This)
    \/ DoInsertAfter(This)
    \/ DoAddToHead(This)
    \/ DoAddToTail(This)
    \/ DoInsertMultipleBefore(This)
    \/ DoInsertMultipleAfter(This)
    \/ DoAddMultipleToHead(This)
    \/ DoAddMultipleToTail(This)
    \/ DoFastRemove(This)
    \/ DoRemove(This)
    \/ DoRemoveMultiple(This)
    \/ DoFindAndRemove(This)
    \/ DoRemoveAll(This)
    \/ DoSetCount(This)
    \/ DoEnsureCount(This)
    \/ DoCopyArray(This)
    \/ DoEnsureCapacity(This)
    \/ DoSort(This)

Spec == Init /\ [][Next]_vars

\* one array built by the order-preserving operations alone
NextOrder ==
    \/ DoAddToTail(This)
    \/ DoInsertBefore(This)
    \/ DoRemove(This)
    \/ DoRemoveMultiple(This)

SpecOrder == Init /\ [][NextOrder]_vars

\* Calls that break a precondition: what follows such a call is outside
\* every contract, so the client stops there ("misused").
Misused(a, op, elem, num, src, c) ==
    /\ Record(a, op, elem, num, src, "", c)
    /\ status' = IF Ok(c) THEN "misused" ELSE c.st

\* RemoveMultiple( elem, num ) without 0 <= elem, 0 <= num, elem + num <= Count()
DoRemoveMultipleUnchecked(A) ==
    \E a \in A : \E elem \in -1..(vec[a].size + 1), num \in -1..(vec[a].size + 1) :
        /\ status = "ok"
        /\ ~(elem >= 0 /\ num >= 0 /\ elem + num <= vec[a].size)
        /\ Misused(a, "RemoveMultiple", elem, num, NullPtr,
                   RemoveMultiple(Enter(vec[a]), elem, num))

\* AddToTail( src ) on a fixed-capacity array that is full
DoAddToTailFull(A) ==
    \E a \in A, src \in Values :
        /\ status = "ok" /\ policy = "fixed" /\ vec[a].size = MAX_SIZE
        /\ Misused(a, "AddToTail", vec[a].size, 1, Ptr(<<src>>),
                   AddToTail(Enter(vec[a]), src))

NextContract ==
    \/ Next
    \/ DoRemoveMultipleUnchecked(This)
    \/ DoAddToTailFull(This)

SpecContract == Init /\ [][NextContract]_vars

\* two arrays that are filled, emptied and swapped
NextSwap ==
    \/ DoAddToTail(Arrays)
    \/ DoRemoveAll(Arrays)
    \/ DoSwap(Arrays)

SpecSwap == Init /\ [][NextSwap]_vars

\* one array under every public operation, deallocation and assignment from
\* itself included
NextLife ==
    \/ Next
    \/ DoPurge(This)
    \/ DoCompact(This)
    \/ DoAssign(This)

SpecLife == Init /\ [][NextLife]_vars

\* two arrays assigned to each other and to themselves; the first is also
\* filled and emptied
NextAssign ==
    \/ DoAddToTail(This)
    \/ DoRemoveAll(This)
    \/ DoAssign(Arrays)

SpecAssign == Init /\ [][NextAssign]_vars

----------------------------------------------------------------------------
\* Properties.  "The array" of a property is the one the last call was made
\* on; its elements before that call are last.pre.

LastArray == vec[IF last.a \in Arrays THEN last.a ELSE 1]

\* reference sequences: an insert before index i, a removal of num at i
RefInsert(s, i, t) == SubSeq(s, 1, i) \o t \o SubSeq(s, i + 1, Len(s))

RefRemove(s, i, num) == SubSeq(s, 1, i) \o SubSeq(s, i + num + 1, Len(s))

Defaults(num) == [k \in 1..num |-> DefaultValue]

InsertOps ==
    {"InsertBefore", "InsertBeforeDefault", "InsertAfter", "AddToHead",
     "AddToTail", "InsertMultipleBefore", "InsertMultipleAfter",
     "AddMultipleToHead", "AddMultipleToTail"}

FullInsertRejected ==
    (policy = "fixed" /\ last.op \in InsertOps) =>
        (/\ LastArray.size <= MAX_SIZE
         /\ (Len(last.pre) = MAX_SIZE =>
                (/\ LastArray.size = MAX_SIZE
                 /\ Contents(LastArray) = last.pre)))

\* C3: FastRemove(i) on n elements leaves n - 1 elements; index i holds the
\* element that was last (when i was not the last index) and every other
\* index holds what it held.
FastRemoveMovesLast ==
    last.op = "FastRemove" =>
        (LET n == Len(last.pre)
         IN  /\ LastArray.size = n - 1
             /\ \A j \in 0..(n - 2) :
                   Contents(LastArray)[j + 1] =
                       IF j = last.elem THEN last.pre[n] ELSE last.pre[j + 1])

\* the last of three elements has moved into the place of a different one
FastRemoveWitness ==
    /\ last.op = "FastRemove"
    /\ Len(last.pre) = 3
    /\ last.elem = 0
    /\ last.pre[1] # last.pre[3]
    /\ last.pre[2] # last.pre[3]
    /\ Contents(LastArray) = <<last.pre[3], last.pre[2]>>

IsSorted(s, pfnCompare) ==
    \A k \in 1..(Len(s) - 1) : Compare(pfnCompare, s[k], s[k + 1]) <= 0

Occurrences(s, x) == Cardinality({k \in 1..Len(s) : s[k] = x})

IsPermutation(s, t) ==
    /\ Len(s) = Len(t)
    /\ \A x \in Values \cup {Raw} : Occurrences(s, x) = Occurrences(t, x)

\* C4: a Sort that returns leaves a permutation of the elements in the
\* comparator's order, on the contiguous and on the non-contiguous path.
SortOrders ==
    (last.op = "Sort" /\ status = "ok") =>
        (/\ IsPermutation(Contents(LastArray), last.pre)
         /\ IsSorted(Contents(LastArray), last.cmp)
         /\ (Len(last.pre) <= 1 => Contents(LastArray) = last.pre))

\* C5: where the operation's checks are compiled in, a RemoveMultiple(i,
\* num) with num < 0, i < 0 or i + num > Count() changes neither Count()
\* nor the elements.
BadRemoveMultipleRejected ==
    (/\ debug
     /\ last.op = "RemoveMultiple"
     /\ (last.num < 0 \/ last.elem < 0 \/ last.elem + last.num > Len(last.pre)))
    => (/\ LastArray.size = Len(last.pre)
        /\ Contents(LastArray) = last.pre)

LiveSlots(v) == {i \in 0..(Len(v.mem) - 1) : v.mem[i + 1] # Raw}

\* C7: Count() is the number of elements present: what was there plus what
\* the last call constructed minus what it destructed, which is the number
\* of live slots; and IsValidIndex(i) holds exactly for the live slots'
\* indices 0 .. Count() - 1, so neither for -1 nor for Count().
CountIsElementsPresent ==
    /\ \A a \in Arrays :
          (/\ vec[a].size = Cardinality(LiveSlots(vec[a]))
           /\ \A i \in -1..(MaxLen + 1) :
                 (IsValidIndex(vec[a], i) <=> i \in LiveSlots(vec[a]))
           /\ ~IsValidIndex(vec[a], InvalidIndex)
           /\ ~IsValidIndex(vec[a], vec[a].size))
    /\ (last.a \in Arrays =>
           LastArray.size = Len(last.pre) + last.nConstruct - last.nDestruct)

\* a removal by value found its element among three
CountWitness ==
    /\ last.op = "FindAndRemove"
    /\ last.ret = TRUE
    /\ Len(last.pre) = 3
    /\ LastArray.size = 2
    /\ last.elem = 1

\* C8: EnsureCapacity(n) leaves Count() and the elements alone and the
\* capacity at least n; and an insert that keeps Count() within the
\* capacity there was (so within any n ensured before) calls no Grow and
\* leaves the capacity as it was.
ReservedCapacityHolds ==
    /\ (last.op = "EnsureCapacity" =>
           (/\ status = "ok"
            /\ Contents(LastArray) = last.pre
            /\ LastArray.size = Len(last.pre)
            /\ Len(LastArray.mem) >= last.num
            /\ Len(LastArray.mem) >= last.preAlloc))
    /\ ((last.op \in InsertOps /\ LastArray.size <= last.preAlloc) =>
           (/\ last.nGrow = 0
            /\ Len(LastArray.mem) = last.preAlloc))

\* an insert has filled the last slot of a capacity that was ensured
ReservedCapacityWitness ==
    /\ policy = "growable"
    /\ last.op = "AddToTail"
    /\ last.preAlloc = 3
    /\ LastArray.size = 3
    /\ Len(LastArray.mem) = 3

\* C9: CopyArray(source, n) leaves Count() == n and element i equal to
\* source[i], whatever the array held.
CopyArrayReproducesSource ==
    last.op = "CopyArray" =>
        (/\ LastArray.size = last.num
         /\ Contents(LastArray) = last.src.at)

\* three elements were replaced by a source of two
CopyArrayWitness ==
    /\ last.op = "CopyArray"
    /\ Len(last.pre) = 3
    /\ last.num = 2
    /\ Contents(LastArray) = last.src.at
    /\ last.pre[1] # last.src.at[1]

\* C10: a.Swap(b) leaves a with the Count(), elements and capacity b had
\* and b with those a had, constructs, destructs and assigns no element,
\* and a second a.Swap(b) restores both arrays.
SwapExchanges ==
    /\ (last.op = "Swap" =>
           (/\ Contents(vec[last.a]) = last.preOther
            /\ Contents(vec[last.other]) = last.pre
            /\ vec[last.a].size = Len(last.preOther)
            /\ vec[last.other].size = Len(last.pre)
            /\ Len(vec[last.other].mem) = last.preAlloc
            /\ last.nConstruct = 0 /\ last.nDestruct = 0
            /\ last.nAssign = 0))
    /\ \A a \in Arrays : \A b \in Arrays \ {a} :
          (LET twice == Swap(Swap(<<Enter(vec[a]), Enter(vec[b])>>))
           IN  Fields(twice[1]) = vec[a] /\ Fields(twice[2]) = vec[b])

\* arrays of different lengths and capacities were swapped
SwapWitness ==
    /\ last.op = "Swap"
    /\ Len(last.pre) = 3
    /\ Len(last.preOther) = 1
    /\ last.pre[1] # last.preOther[1]
    /\ Len(vec[last.a].mem) # Len(vec[last.other].mem)

AssignCopies ==
    (last.op = "operator=" /\ status = "ok") =>
        /\ vec[last.a].size = Len(last.preOther)
        /\ Contents(vec[last.a]) = last.preOther
        /\ Contents(vec[last.other]) = last.preOther

====
